---- MODULE Spec2Model ----
(***************************************************************************)
(* Model of the background case-processing orchestrator of                 *)
(* app/api/routes.py: receive_judgement, _trigger_analysis_background,     *)
(* _send_webhook, reset_case_analysis and the analysis query endpoints.    *)
(*                                                                         *)
(* All handlers are coroutines on one asyncio event loop, so a handler     *)
(* runs without interruption from one await that suspends to the next.     *)
(* The only suspending await of _trigger_analysis_background is the POST   *)
(* inside _send_webhook (agent.run is a plain blocking call).  Each action *)
(* below is one such uninterrupted run.                                    *)
(***************************************************************************)
EXTENDS Integers, FiniteSets, Sequences, TLC

\* ---------------------------------------------------------------- bounds
MaxEvents == 3
NumCases == 2
MaxCalls == 2
MaxHits == 2
MaxWeb == 2
MaxPages == 3
MaxArticles == 3
MaxPerPage == 2
MaxPerQuery == 2
MaxCache == 1
MaxResults == 2
NumCallers == 2
MaxItems == 2
MaxWorkers == 2
MaxExtracted == 2
MaxDocs == 2
MaxSources == 2
MaxTechniques == 2

Cases == 1..NumCases
Events == 1..MaxEvents

\* ------------------------------------------------------ program constants
\* HTTP statuses the webhook receiver may answer with (a sample around the
\* accepted ones of routes.py:323).
StatusCodes == {200, 201, 202, 204, 500}

\* What the POST of _send_webhook can end in: a response with a status, an
\* httpx.TimeoutException, or any other exception.
Responses ==
    [exc : {"none"}, status : StatusCodes]
        \cup [exc : {"timeout", "error"}, status : {0}]

NoResponse == [exc |-> "unset", status |-> 0]

\* Outcome of agent.run / of building the request (routes.py:376-382):
\* a response of status success, a response of status error, or an exception.
AgentOutcomes == {"success", "error", "raise"}

NoResult == [analysis_id |-> 0, case_id |-> 0, status |-> "none", has_error |-> FALSE]

VARIABLES
    analyzed,      \* _analyzed_cases   (routes.py:43)
    analyzing,     \* _analyzing_cases  (routes.py:44)
    results,       \* _analysis_results (routes.py:42), keyed by analysis id
    webhook_url,   \* SETTINGS.webhook_url is set (config.py:41)
    nextEvent,     \* number of judgement events received so far
    pc,            \* position of the background task of each event
    tcase,         \* case_id of each event
    ack,           \* analysis_triggered of the acknowledgment
    agentRes,      \* what agent.run gave in the task
    payload,       \* "type" of the webhook payload the task built
    calls,         \* number of _send_webhook calls made by the task
    posts,         \* number of POSTs issued by the task
    sendRet,       \* return value of _send_webhook in the task
    tracking,      \* history variables are kept (fixed by the initial state)
    fresh,         \* history: "first"/"rerun" while the case was not reset since
                   \* the task claimed it ("rerun": claimed right after a reset
                   \* of the analyzed case), else "stale"
    armed          \* history: case was reset from analyzed, no event since

\* State of the other subsystems, each exercised by a specification of its own.
VARIABLES
    wh,            \* direct calls of _send_webhook: the call in flight and a log
    rt,            \* compare_tool / vector_search: store answer and outputs
    gr,            \* one run of the graph of build_graph
    cr,            \* one run of crawl_site_with_pagination
    ws             \* web_search_snippets: recent-URL cache and one call

VARIABLES
    rc,            \* the recent-URL cache file and the calls working on it
    cx,            \* one call of WebSearcher._crawl_contents
    fs,            \* one call of web_fetch_and_store
    sn,            \* the snippet collection and the tools working on it
    bt,            \* one call of crawl_and_extract_batch_multi_page
    ra             \* one run of ResearchAgent.run

orchVars == <<analyzed, analyzing, results, webhook_url, nextEvent, pc, tcase, ack,
              agentRes, payload, calls, posts, sendRet, tracking, fresh, armed>>

moreVars == <<rc, cx, fs, sn, bt, ra>>

subVars == <<wh, rt, gr, cr, ws, moreVars>>

vars == <<orchVars, subVars>>

taskVars == <<pc, agentRes, payload, calls, posts, sendRet>>

\* ------------------------------------------------------------- _send_webhook
\* routes.py:309-313: no URL configured: return False without a POST.
HasUrl == webhook_url

\* Variant of SendWebhookResult that accepts every 2xx status.
SendWebhookResult_Any2xx(r) ==
    IF r.exc = "none" THEN r.status \in 200..299 ELSE FALSE

\* routes.py:323-335: the return value for what the POST ended in.
SendWebhookResult(r) ==
    IF r.exc = "none" THEN r.status \in {200, 201, 202} ELSE FALSE

\* --------------------------------------------- _trigger_analysis_background
\* Variant of CanClaim that leaves out the check of routes.py:348.
CanClaim_NoAnalyzedCheck(c) == c \notin analyzing

\* routes.py:347-355: the two membership checks of the claim step.
CanClaim(c) == c \notin analyzed /\ c \notin analyzing

\* routes.py:348-350 and 353-355: which check makes the task return.
SkipReason(c) ==
    IF c \in analyzed THEN "skipped_analyzed" ELSE "skipped_analyzing"

\* routes.py:358
ClaimCase(c) == analyzing \cup {c}

\* Variant of MarkAnalyzed that marks the case only after a delivery.
MarkAnalyzed_OnlyIfSent(c, sent) == IF sent THEN analyzed \cup {c} ELSE analyzed

\* routes.py:425, after the webhook call whatever it returned.
MarkAnalyzed(c, sent) == analyzed \cup {c}

\* Variant of ReleaseCase that forgets the discard.
ReleaseCase_NoDiscard(S, c) == S

\* routes.py:450-452, the finally block.
ReleaseCase(S, c) == S \ {c}

\* routes.py:391-407: the record stored for a returned agent response.
AnalysisData(id, c, status) ==
    [analysis_id |-> id, case_id |-> c, status |-> status,
     has_error |-> (status = "error")]

\* routes.py:430-438: the record stored by the except branch.
ErrorData(id, c) ==
    [analysis_id |-> id, case_id |-> c, status |-> "error", has_error |-> TRUE]

\* routes.py:412: a webhook is sent for a returned response only on success.
SendsForStatus(status) == status = "success"

TypeOK ==
    /\ analyzed \subseteq Cases
    /\ analyzing \subseteq Cases
    /\ webhook_url \in BOOLEAN
    /\ nextEvent \in 0..MaxEvents
    /\ pc \in [Events -> {"none", "received", "pending", "webhook", "done",
                          "skipped_analyzed", "skipped_analyzing"}]
    /\ tcase \in [Events -> Cases \cup {0}]
    /\ ack \in [Events -> BOOLEAN]
    /\ agentRes \in [Events -> AgentOutcomes \cup {"none"}]
    /\ payload \in [Events -> {"none", "analysis_complete", "analysis_error"}]
    /\ calls \in [Events -> 0..2]
    /\ posts \in [Events -> 0..2]
    /\ sendRet \in [Events -> {"none", "true", "false"}]
    /\ tracking \in BOOLEAN
    /\ fresh \in [Events -> {"stale", "first", "rerun"}]
    /\ armed \in [Cases -> BOOLEAN]

InitState ==
    /\ analyzed = {}
    /\ analyzing = {}
    /\ results = [e \in Events |-> NoResult]
    /\ webhook_url \in BOOLEAN
    /\ nextEvent = 0
    /\ pc = [e \in Events |-> "none"]
    /\ tcase = [e \in Events |-> 0]
    /\ ack = [e \in Events |-> FALSE]
    /\ agentRes = [e \in Events |-> "none"]
    /\ payload = [e \in Events |-> "none"]
    /\ calls = [e \in Events |-> 0]
    /\ posts = [e \in Events |-> 0]
    /\ sendRet = [e \in Events |-> "none"]
    /\ fresh = [e \in Events |-> "stale"]
    /\ armed = [c \in Cases |-> FALSE]

\* The subsystems a specification does not exercise stay as they are here.
RtIdle == rt = [phase |-> "idle"]

GrIdle == gr = [phase |-> "idle"]

CrIdle == cr = [phase |-> "idle"]

WsIdle == ws = [phase |-> "idle"]

\* The orchestrator before any event, for the specifications of the others.
OrchIdle == InitState /\ tracking = FALSE

\* No direct call of _send_webhook made yet.
WhIdle == wh = [pending |-> "none", log |-> <<>>]

RcIdle == rc = [phase |-> "idle"]

CxIdle == cx = [phase |-> "idle"]

FsIdle == fs = [phase |-> "idle"]

SnIdle == sn = [phase |-> "idle"]

BtIdle == bt = [phase |-> "idle"]

RaIdle == ra = [phase |-> "idle"]

MoreIdle == RcIdle /\ CxIdle /\ FsIdle /\ SnIdle /\ BtIdle /\ RaIdle

SubIdle == WhIdle /\ RtIdle /\ GrIdle /\ CrIdle /\ WsIdle /\ MoreIdle

Init == InitState /\ tracking = FALSE /\ SubIdle

InitHist == InitState /\ tracking = TRUE /\ SubIdle

\* History: a task that claims its case is fresh until the case is reset.
FreshOnClaim(e) ==
    IF tracking
    THEN [fresh EXCEPT ![e] = IF armed[tcase[e]] THEN "rerun" ELSE "first"]
    ELSE fresh

FreshOnReset(c) ==
    IF tracking
    THEN [e \in Events |-> IF tcase[e] = c THEN "stale" ELSE fresh[e]]
    ELSE fresh

\* History: a reset of an analyzed case arms it; the next processed event
\* of the case disarms it.
ArmedOnReset(c) ==
    IF tracking THEN [armed EXCEPT ![c] = (c \in analyzed)] ELSE armed

ArmedOnEvent(c) == IF tracking THEN [armed EXCEPT ![c] = FALSE] ELSE armed

\* Variant of AnalysisTriggered that looks at the state of the case.
AnalysisTriggered_IfClaimable(auto_analyze, c) == auto_analyze /\ CanClaim(c)

\* routes.py:505-515: analysis_triggered of the acknowledgment.
AnalysisTriggered(auto_analyze, c) == auto_analyze

\* receive_judgement (routes.py:456-526): stores the event, queues the
\* background task when auto_analyze is set, and acknowledges.
ReceiveJudgement(c, auto_analyze) ==
    /\ nextEvent < MaxEvents
    /\ LET e == nextEvent + 1 IN
        /\ nextEvent' = e
        /\ tcase' = [tcase EXCEPT ![e] = c]
        /\ pc' = [pc EXCEPT ![e] = IF auto_analyze THEN "pending" ELSE "received"]
        /\ ack' = [ack EXCEPT ![e] = AnalysisTriggered(auto_analyze, c)]
    /\ UNCHANGED <<analyzed, analyzing, results, webhook_url, agentRes, payload,
                   calls, posts, sendRet, tracking, fresh, armed, subVars>>

\* _trigger_analysis_background from its start to its first suspension or
\* its return (routes.py:347-452).
StartTask(e, out) ==
    /\ pc[e] = "pending"
    /\ LET c == tcase[e] IN
       IF ~CanClaim(c)
       THEN \* routes.py:348-355
            /\ pc' = [pc EXCEPT ![e] = SkipReason(c)]
            /\ armed' = ArmedOnEvent(c)
            /\ UNCHANGED <<analyzed, analyzing, results, agentRes, payload,
                           calls, posts, sendRet, fresh>>
       ELSE
            /\ agentRes' = [agentRes EXCEPT ![e] = out]
            /\ fresh' = FreshOnClaim(e)
            /\ armed' = ArmedOnEvent(c)
            /\ results' = [results EXCEPT ![e] =
                    IF out = "raise" THEN ErrorData(e, c)
                                     ELSE AnalysisData(e, c, out)]
            /\ IF out # "raise" /\ ~SendsForStatus(out)
               THEN \* routes.py:412 false: straight to the finally block
                    /\ analyzing' = ReleaseCase(ClaimCase(c), c)
                    /\ pc' = [pc EXCEPT ![e] = "done"]
                    /\ UNCHANGED <<analyzed, payload, calls, posts, sendRet>>
               ELSE
                    /\ payload' = [payload EXCEPT ![e] =
                            IF out = "raise" THEN "analysis_error"
                                             ELSE "analysis_complete"]
                    /\ calls' = [calls EXCEPT ![e] = @ + 1]
                    /\ IF HasUrl
                       THEN \* suspended in client.post (routes.py:317)
                            /\ analyzing' = ClaimCase(c)
                            /\ posts' = [posts EXCEPT ![e] = @ + 1]
                            /\ pc' = [pc EXCEPT ![e] = "webhook"]
                            /\ UNCHANGED <<analyzed, sendRet>>
                       ELSE \* routes.py:311-313, then 425 and 452
                            /\ sendRet' = [sendRet EXCEPT ![e] = "false"]
                            /\ analyzed' = IF out = "success"
                                           THEN MarkAnalyzed(c, FALSE)
                                           ELSE analyzed
                            /\ analyzing' = ReleaseCase(ClaimCase(c), c)
                            /\ pc' = [pc EXCEPT ![e] = "done"]
                            /\ UNCHANGED posts
    /\ UNCHANGED <<webhook_url, nextEvent, tcase, ack, tracking, subVars>>

\* The POST of _send_webhook ends (routes.py:317-335) and the task runs on
\* to its end (routes.py:425 for a success, then 450-452).
WebhookReturn(e, r) ==
    /\ pc[e] = "webhook"
    /\ LET c == tcase[e]
           sent == SendWebhookResult(r) IN
        /\ sendRet' = [sendRet EXCEPT ![e] = IF sent THEN "true" ELSE "false"]
        /\ analyzed' = IF payload[e] = "analysis_complete"
                       THEN MarkAnalyzed(c, sent)
                       ELSE analyzed
        /\ analyzing' = ReleaseCase(analyzing, c)
        /\ pc' = [pc EXCEPT ![e] = "done"]
    /\ UNCHANGED <<results, webhook_url, nextEvent, tcase, ack, agentRes,
                   payload, calls, posts, tracking, fresh, armed, subVars>>

\* reset_case_analysis (routes.py:702-721)
ResetCaseAnalysis(c) ==
    /\ analyzed' = analyzed \ {c}
    /\ analyzing' = analyzing \ {c}
    /\ fresh' = FreshOnReset(c)
    /\ armed' = ArmedOnReset(c)
    /\ UNCHANGED <<results, webhook_url, nextEvent, tcase, ack, taskVars, tracking,
                   subVars>>

Next ==
    \/ \E c \in Cases, a \in BOOLEAN : ReceiveJudgement(c, a)
    \/ \E e \in Events, out \in AgentOutcomes : StartTask(e, out)
    \/ \E e \in Events, r \in Responses : WebhookReturn(e, r)
    \/ \E c \in Cases : ResetCaseAnalysis(c)

Spec == Init /\ [][Next]_vars

\* The same program with the history variables kept.
SpecHist == InitHist /\ [][Next]_vars

\* The same program when every started POST of _send_webhook ends: the
\* client is built with timeout=SETTINGS.webhook_timeout (routes.py:316), so
\* the call returns, raises or times out.
SpecLive ==
    Init /\ [][Next]_vars
         /\ \A e \in Events : WF_vars(\E r \in Responses : WebhookReturn(e, r))

\* ------------------------------------------------ _send_webhook on its own
\* The webhook_url argument of a call: given or left out (routes.py:298).
UrlArgs == {"given", "absent"}

\* routes.py:309: url = webhook_url or SETTINGS.webhook_url
EffectiveUrl(arg) ==
    IF arg = "given" THEN "arg" ELSE IF HasUrl THEN "settings" ELSE "none"

\* A call of _send_webhook up to its return (no URL, routes.py:311-313) or
\* to its suspension in client.post (routes.py:316-321).
SendWebhookCall(arg) ==
    /\ wh.pending = "none"
    /\ Len(wh.log) < MaxCalls
    /\ IF EffectiveUrl(arg) = "none"
       THEN wh' = [wh EXCEPT !.log = Append(@,
                    [url |-> "none", posted |-> FALSE, resp |-> NoResponse,
                     ret |-> FALSE, raised |-> FALSE])]
       ELSE wh' = [wh EXCEPT !.pending = EffectiveUrl(arg)]
    /\ UNCHANGED <<orchVars, rt, gr, cr, ws, moreVars>>

\* The POST ends and the call returns (routes.py:323-335).  Both except
\* clauses return False; nothing is raised again.
SendWebhookReturn(r) ==
    /\ wh.pending # "none"
    /\ wh' = [pending |-> "none",
              log |-> Append(wh.log,
                    [url |-> wh.pending, posted |-> TRUE, resp |-> r,
                     ret |-> SendWebhookResult(r), raised |-> FALSE])]
    /\ UNCHANGED <<orchVars, rt, gr, cr, ws, moreVars>>

NextWebhook ==
    \/ \E arg \in UrlArgs : SendWebhookCall(arg)
    \/ \E r \in Responses : SendWebhookReturn(r)

SpecWebhook == Init /\ [][NextWebhook]_vars

\* ------------------------------------------- compare_tool and vector_search
\* Relevance scores and thresholds in hundredths (0.75 is 75).
ScoreVals == {70, 75, 80, 90}

\* Thresholds callers pass: the defaults of compare.py:9 and
\* agent_tools.py:1173.
Thresholds == {75, 80}

Min2(a, b) == IF a <= b THEN a ELSE b

\* Sequences over S of length at most n.
SeqsUpTo(S, n) == UNION {[1..k -> S] : k \in 0..n}

\* What the store can hold for a query: scores in the order the store
\* returns them, best first.
StoreAnswers ==
    {q \in SeqsUpTo(ScoreVals, MaxHits) :
        \A i \in 1..(Len(q) - 1) : q[i] >= q[i + 1]}

\* vectordb.similarity_search_with_relevance_scores(query, k): the k best
\* (document, score) pairs; a document is named by its rank in the store.
SimilaritySearch(store, k) ==
    [i \in 1..Min2(k, Len(store)) |-> [doc |-> i, score |-> store[i]]]

\* Variant of AnyAtLeast with a strict comparison.
AnyAtLeast_Strict(scores, thr) == \E i \in 1..Len(scores) : scores[i] > thr

\* compare.py:18 and agent_tools.py:1192: any(s >= min_relevance for s in scores)
AnyAtLeast(scores, thr) == \E i \in 1..Len(scores) : scores[i] >= thr

\* compare_tool (compare.py:5-19)
CompareTool(store, top_k, min_relevance) ==
    LET res == SimilaritySearch(store, top_k)
        scores == [i \in 1..Len(res) |-> res[i].score]
    IN [tool |-> "compare_tool",
        route |-> IF AnyAtLeast(scores, min_relevance) THEN "HIT" ELSE "MISS",
        docs |-> [i \in 1..Len(res) |-> res[i].doc],
        scores |-> scores,
        min_relevance |-> min_relevance]

\* vector_search (agent_tools.py:1169-1193)
VectorSearch(store, top_k, min_relevance) ==
    LET res == SimilaritySearch(store, top_k)
        scores == [i \in 1..Len(res) |-> res[i].score]
    IN [tool |-> "vector_search",
        route |-> IF AnyAtLeast(scores, min_relevance) THEN "HIT" ELSE "MISS",
        docs |-> [i \in 1..Len(res) |-> res[i].doc],
        scores |-> scores,
        min_relevance |-> min_relevance]

InitRouter ==
    /\ OrchIdle /\ WhIdle /\ GrIdle /\ CrIdle /\ WsIdle /\ MoreIdle
    /\ \E st \in StoreAnswers :
        rt = [phase |-> "ready", store |-> st, before |-> st, log |-> <<>>]

CallCompareTool(top_k, min_relevance) ==
    /\ rt.phase = "ready"
    /\ Len(rt.log) < MaxCalls
    /\ rt' = [rt EXCEPT !.log = Append(@, CompareTool(rt.store, top_k, min_relevance))]
    /\ UNCHANGED <<orchVars, wh, gr, cr, ws, moreVars>>

CallVectorSearch(top_k, min_relevance) ==
    /\ rt.phase = "ready"
    /\ Len(rt.log) < MaxCalls
    /\ rt' = [rt EXCEPT !.log = Append(@, VectorSearch(rt.store, top_k, min_relevance))]
    /\ UNCHANGED <<orchVars, wh, gr, cr, ws, moreVars>>

NextRouter ==
    \/ \E k \in 1..MaxHits, thr \in Thresholds : CallCompareTool(k, thr)
    \/ \E k \in 1..MaxHits, thr \in Thresholds : CallVectorSearch(k, thr)

SpecRouter == InitRouter /\ [][NextRouter]_vars

\* --------------------------------------------------- the graph of build_graph
\* Words of the incoming text; "recent" and "news" stand for the recency
\* words listed in judgment.py:15.
Words == {"recent", "news", "plain"}

RecencyWords == {"recent", "news"}

\* Defaults of compare_tool used by node_compare (compare.py:8-9).
DefaultTopK == 5
DefaultMinRelevance == 75

\* judgment_tool (judgment.py:3-23)
JudgmentTool(incoming) ==
    [query |-> IF incoming.has_keywords THEN "keywords" ELSE "text",
     needs_web |-> incoming.text \cap RecencyWords # {}]

\* Variant of NodeCompare that always asks the store.
NodeCompare_NoNeedsWeb(judgment, store) ==
    LET c == CompareTool(store, DefaultTopK, DefaultMinRelevance)
    IN [route |-> c.route, hits |-> c.docs, hit_scores |-> c.scores]

\* node_compare (graph.py:15-22)
NodeCompare(judgment, store) ==
    IF judgment.needs_web
    THEN [route |-> "MISS", hits |-> <<>>, hit_scores |-> <<>>]
    ELSE LET c == CompareTool(store, DefaultTopK, DefaultMinRelevance)
         IN [route |-> c.route, hits |-> c.docs, hit_scores |-> c.scores]

\* route_fn (graph.py:68-69)
RouteFn(route) == IF route = "MISS" THEN "search" ELSE "outgoing"

\* report_writing_tool (report_writing.py:5-37): one document to store for
\* every web result that has content; a web result is modelled by whether
\* it has content.
ReportWritingTool(web_results) ==
    [report |-> Len(web_results),
     to_store |-> SelectSeq(web_results, LAMBDA has_content : has_content)]

InitGraph ==
    /\ OrchIdle /\ WhIdle /\ RtIdle /\ CrIdle /\ WsIdle /\ MoreIdle
    /\ \E st \in StoreAnswers, txt \in SUBSET Words, kw \in BOOLEAN :
        gr = [phase |-> "run",
              incoming |-> [text |-> txt, has_keywords |-> kw],
              store |-> st,
              node |-> "judgment",
              trace |-> <<>>,
              judgment |-> [query |-> "", needs_web |-> FALSE],
              route |-> "none", hits |-> <<>>, hit_scores |-> <<>>,
              web_results |-> <<>>, to_store |-> <<>>,
              searches |-> 0, writes |-> 0,
              outgoing |-> [route |-> "none", top_docs |-> <<>>]]

GrOthers == <<orchVars, wh, rt, cr, ws, moreVars>>

\* node_judgment (graph.py:11-13)
NodeJudgment ==
    /\ gr.phase = "run" /\ gr.node = "judgment"
    /\ gr' = [gr EXCEPT !.judgment = JudgmentTool(gr.incoming),
                        !.trace = Append(@, "judgment"),
                        !.node = "compare"]
    /\ UNCHANGED GrOthers

\* node_compare and the conditional edge (graph.py:15-22, 68-72)
NodeCompareStep ==
    /\ gr.phase = "run" /\ gr.node = "compare"
    /\ LET c == NodeCompare(gr.judgment, gr.store) IN
        gr' = [gr EXCEPT !.route = c.route, !.hits = c.hits,
                         !.hit_scores = c.hit_scores,
                         !.trace = Append(@, "compare"),
                         !.node = RouteFn(c.route)]
    /\ UNCHANGED GrOthers

\* node_search (graph.py:24-26); search_tool may raise, which ends the run.
NodeSearch(res, raises) ==
    /\ gr.phase = "run" /\ gr.node = "search"
    /\ IF raises
       THEN gr' = [gr EXCEPT !.searches = @ + 1,
                             !.trace = Append(@, "search"),
                             !.node = "raised"]
       ELSE gr' = [gr EXCEPT !.searches = @ + 1,
                             !.web_results = res,
                             !.trace = Append(@, "search"),
                             !.node = "report"]
    /\ UNCHANGED GrOthers

\* node_report (graph.py:28-30)
NodeReport ==
    /\ gr.phase = "run" /\ gr.node = "report"
    /\ gr' = [gr EXCEPT !.to_store = ReportWritingTool(gr.web_results).to_store,
                        !.trace = Append(@, "report"),
                        !.node = "store"]
    /\ UNCHANGED GrOthers

\* node_store (graph.py:32-37)
NodeStore ==
    /\ gr.phase = "run" /\ gr.node = "store"
    /\ gr' = [gr EXCEPT !.writes = @ + Len(gr.to_store),
                        !.trace = Append(@, "store"),
                        !.node = "outgoing"]
    /\ UNCHANGED GrOthers

\* node_outgoing (graph.py:39-56)
NodeOutgoing ==
    /\ gr.phase = "run" /\ gr.node = "outgoing"
    /\ gr' = [gr EXCEPT !.outgoing =
                    IF gr.route = "HIT"
                    THEN [route |-> "HIT", top_docs |-> gr.hits]
                    ELSE [route |-> "MISS", top_docs |-> <<>>],
                        !.trace = Append(@, "outgoing"),
                        !.node = "END"]
    /\ UNCHANGED GrOthers

NextGraph ==
    \/ NodeJudgment
    \/ NodeCompareStep
    \/ \E res \in SeqsUpTo(BOOLEAN, MaxWeb), raises \in BOOLEAN : NodeSearch(res, raises)
    \/ NodeReport
    \/ NodeStore
    \/ NodeOutgoing

SpecGraph == InitGraph /\ [][NextGraph]_vars

WebPath == <<"judgment", "compare", "search", "report", "store", "outgoing">>

HitPath == <<"judgment", "compare", "outgoing">>

IsPrefix(p, q) == Len(p) <= Len(q) /\ \A i \in 1..Len(p) : p[i] = q[i]

\* The store holds a document whose score reaches the threshold.
StoreHasHit == AnyAtLeast(gr.store, DefaultMinRelevance)

\* ------------------------------------------- crawl_site_with_pagination
PaginationTypes == {"auto", "url_param", "path", "next_button"}

\* Shape of site_url as the automatic detection reads it.
UrlShapes == {"has_page_param", "digit_path", "plain"}

\* agent_tools.py:969-976
DetectPagination(pagination_type, shape) ==
    IF pagination_type # "auto" THEN pagination_type
    ELSE IF shape = "has_page_param" THEN "url_param"
    ELSE IF shape = "digit_path" THEN "path"
    ELSE "next_button"

SiteUrl == [kind |-> "site", n |-> 0]

\* What a listing page offers as its "next" link: none, one with an empty
\* href, or a link to the address n.
NextLinks == [kind : {"none", "empty"}, n : {0}] \cup [kind : {"link"}, n : 1..2]

\* Where the handling of a page raises: nowhere, in the request, while the
\* items are extracted, or while the next link is looked up and joined.
FailPoints == {"none", "fetch", "items", "next"}

PageInputs == [found : 0..MaxPerPage, next : NextLinks, fail : FailPoints]

\* agent_tools.py:983-994: the address requested for page page_num
PageUrl(ptype, page_num, current_url) ==
    IF ptype = "url_param" THEN [kind |-> "param", n |-> page_num]
    ELSE IF ptype = "path" THEN [kind |-> "path", n |-> page_num]
    ELSE current_url

\* agent_tools.py:1046-1051: the articles one page yields
PageArticles(page_num, found) == [i \in 1..found |-> [page |-> page_num, idx |-> i]]

\* Variant of TakeFirst that never cuts.
TakeFirst_NoCut(q, n) == q

\* all_articles[:max_articles] (agent_tools.py:1059)
TakeFirst(q, n) == IF Len(q) <= n THEN q ELSE SubSeq(q, 1, n)

\* Variant of StopAfterPage that goes on after a page without articles.
StopAfterPage_IgnoreEmpty(ptype, total, max_articles, found, next, fail) ==
    IF total >= max_articles THEN "cap"
    ELSE IF ptype = "next_button" /\ fail = "next" THEN "raise"
    ELSE IF ptype = "next_button" /\ next.kind # "link" THEN "no_next"
    ELSE "continue"

\* agent_tools.py:1057-1084: what ends the loop after a page was extracted,
\* in the order the code tests it.
StopAfterPage(ptype, total, max_articles, found, next, fail) ==
    IF total >= max_articles THEN "cap"
    ELSE IF ptype = "next_button" /\ fail = "next" THEN "raise"
    ELSE IF ptype = "next_button" /\ next.kind # "link" THEN "no_next"
    ELSE IF found = 0 THEN "empty"
    ELSE "continue"

\* Variant of KeptAtRaise that discards what was collected.
KeptAtRaise_Discard(all_articles) == <<>>

\* agent_tools.py:1089-1091: the handler only leaves the loop
KeptAtRaise(all_articles) == all_articles

InitCrawl ==
    /\ OrchIdle /\ WhIdle /\ RtIdle /\ GrIdle /\ WsIdle /\ MoreIdle
    /\ \E mp \in 0..MaxPages, ma \in 0..MaxArticles,
          pt \in PaginationTypes, sh \in UrlShapes :
        /\ pt # "auto" => sh = "plain"
        /\ cr = [phase |-> "loop",
                 max_pages |-> mp, max_articles |-> ma,
                 pagination_type |-> DetectPagination(pt, sh),
                 page_num |-> 1, broke |-> FALSE,
                 current_url |-> SiteUrl,
                 all_articles |-> <<>>, pages_crawled |-> 0,
                 log |-> <<>>,
                 result |-> [pages_crawled |-> 0, found_count |-> 0, articles |-> <<>>]]

CrOthers == <<orchVars, wh, rt, gr, ws, moreVars>>

\* One pass of the loop body (agent_tools.py:978-1091) over page pg.
CrawlPage(pg) ==
    /\ cr.phase = "loop" /\ ~cr.broke /\ cr.page_num <= cr.max_pages
    /\ LET n == cr.page_num
           url == PageUrl(cr.pagination_type, n, cr.current_url)
           entry(stop, raised) ==
               [page |-> n, url |-> url, found |-> pg.found, next |-> pg.next,
                stop |-> stop, raised |-> raised, before |-> cr.all_articles]
       IN
       IF pg.fail \in {"fetch", "items"}
       THEN cr' = [cr EXCEPT !.broke = TRUE,
                             !.current_url = url,
                             !.all_articles = KeptAtRaise(@),
                             !.log = Append(@, entry("raise", pg.fail))]
       ELSE LET all == cr.all_articles \o PageArticles(n, pg.found)
                stop == StopAfterPage(cr.pagination_type, Len(all),
                                      cr.max_articles, pg.found, pg.next, pg.fail)
            IN cr' = [cr EXCEPT
                 !.all_articles = IF stop = "cap" THEN TakeFirst(all, cr.max_articles)
                                  ELSE IF stop = "raise" THEN KeptAtRaise(all)
                                  ELSE all,
                 !.pages_crawled = @ + 1,
                 !.current_url = IF /\ cr.pagination_type = "next_button"
                                    /\ stop \in {"empty", "continue"}
                                 THEN pg.next ELSE url,
                 !.broke = stop # "continue",
                 !.page_num = IF stop = "continue" THEN n + 1 ELSE n,
                 !.log = Append(@, entry(stop, IF stop = "raise" THEN "next" ELSE "none"))]
    /\ UNCHANGED CrOthers

\* agent_tools.py:1093-1098
CrawlReturn ==
    /\ cr.phase = "loop" /\ (cr.broke \/ cr.page_num > cr.max_pages)
    /\ cr' = [cr EXCEPT !.phase = "returned",
                        !.result = [pages_crawled |-> cr.pages_crawled,
                                    found_count |-> Len(cr.all_articles),
                                    articles |-> cr.all_articles]]
    /\ UNCHANGED CrOthers

NextCrawl ==
    \/ \E pg \in PageInputs : CrawlPage(pg)
    \/ CrawlReturn

SpecCrawl == InitCrawl /\ [][NextCrawl]_vars

CrawlRunning == cr.phase \in {"loop", "returned"}

\* The articles the logged pages 1..k yielded, in order.
RECURSIVE ArticlesOfPages(_, _)
ArticlesOfPages(log, k) ==
    IF k = 0 THEN <<>>
    ELSE ArticlesOfPages(log, k - 1) \o PageArticles(log[k].page, log[k].found)

\* ------------------------------------------------------ web_search_snippets
\* The query and its four variants (agent_tools.py:1272-1278).
NumVariants == 5

\* Default limit of _load_recent_urls and _save_recent_urls (1239, 1250).
RecentLimit == 200

GoodIds == {"u1", "u2", "u3"}

HubIds == {"hub"}

\* A url field as a search result carries it: an address or nothing; one of
\* the addresses also comes with surrounding blanks.
RawUrls ==
    [id : GoodIds \cup HubIds \cup {""}, padded : {FALSE}]
        \cup [id : {"u1"}, padded : {TRUE}]

\* (r.get("url") or "").strip() (agent_tools.py:1302)
StripUrl(raw) == raw.id

\* _is_hub_url (agent_tools.py:1259-1270)
IsHubUrl(u) == u \in HubIds

\* What tavily_snippets.invoke does for one query: it returns a list of
\* results, returns something without a list of results, or raises.
SearchOutcomes == {"ok", "no_list", "raise"}

\* _normalize_tavily_search_output (agent_tools.py:31-44): whether the
\* output yields results to iterate over.
NormalizeTavilySearchOutput(kind) == IF kind = "ok" THEN "results" ELSE "collect"

\* Variant of KeepResult that does not look at the urls already seen.
KeepResult_NoSeen(url, seen) == url # "" /\ ~IsHubUrl(url)

\* agent_tools.py:1303-1306
KeepResult(url, seen) == url # "" /\ ~IsHubUrl(url) /\ url \notin seen

\* The body of the loop of agent_tools.py:1301-1308 for one result; acc
\* holds all_results and seen.
CollectResult(raw, variant, acc) ==
    LET url == StripUrl(raw) IN
    IF KeepResult(url, acc.seen)
    THEN [all |-> Append(acc.all, [url |-> url, variant |-> variant]),
          seen |-> acc.seen \cup {url}]
    ELSE acc

\* urls[-limit:]
LastN(q, limit) == IF Len(q) <= limit THEN q ELSE SubSeq(q, Len(q) - limit + 1, Len(q))

\* _load_recent_urls (agent_tools.py:1239-1248)
LoadRecentUrls(cache) == IF cache.ok THEN LastN(cache.urls, RecentLimit) ELSE <<>>

\* agent_tools.py:1314-1318
FreshPool(all_results, recent_set) ==
    SelectSeq(all_results, LAMBDA r : r.url # "" /\ r.url \notin recent_set)

\* Variant of ChoosePool that never prefers the fresh results.
ChoosePool_AlwaysAll(fresh_pool, all_results, max_results) == all_results

\* agent_tools.py:1321
ChoosePool(fresh_pool, all_results, max_results) ==
    IF Len(fresh_pool) >= max_results THEN fresh_pool ELSE all_results

\* The orders random.shuffle can leave n items in.
ShuffleOrders(n) == {f \in [1..n -> 1..n] : \A a, b \in 1..n : f[a] = f[b] => a = b}

Range(q) == {q[i] : i \in 1..Len(q)}

Caches == [ok : {TRUE}, urls : SeqsUpTo(GoodIds, MaxCache)] \cup [ok : {FALSE}, urls : {<<>>}]

InitSearch ==
    /\ OrchIdle /\ WhIdle /\ RtIdle /\ GrIdle /\ CrIdle /\ MoreIdle
    /\ \E c \in Caches, mr \in 0..MaxResults :
        ws = [phase |-> "collect", max_results |-> mr,
              cache0 |-> c, cache |-> c,
              queried |-> 0, failed |-> 0, k |-> 0,
              all_results |-> <<>>, seen |-> {},
              firstSeen |-> [u \in GoodIds |-> 0],
              pool |-> "none",
              ret |-> <<>>]

WsOthers == <<orchVars, wh, rt, gr, cr, moreVars>>

\* The search call of the next query (agent_tools.py:1283-1299).
InvokeSearch(kind) ==
    /\ ws.phase = "collect" /\ ws.queried < NumVariants
    /\ IF kind = "raise"
       THEN ws' = [ws EXCEPT !.phase = "raised", !.queried = @ + 1, !.failed = @ + 1]
       ELSE ws' = [ws EXCEPT !.phase = NormalizeTavilySearchOutput(kind),
                             !.queried = @ + 1,
                             !.failed = IF kind = "ok" THEN @ ELSE @ + 1,
                             !.k = 0]
    /\ UNCHANGED WsOthers

\* One pass of the loop over the results of the query (agent_tools.py:1301-1308).
NextResult(raw) ==
    /\ ws.phase = "results" /\ ws.k < MaxPerQuery
    /\ LET acc == CollectResult(raw, ws.queried, [all |-> ws.all_results, seen |-> ws.seen])
       IN ws' = [ws EXCEPT
             !.k = @ + 1,
             !.all_results = acc.all,
             !.seen = acc.seen,
             !.firstSeen = [u \in GoodIds |->
                 IF ws.firstSeen[u] = 0 /\ raw.id = u
                 THEN ws.queried ELSE ws.firstSeen[u]]]
    /\ UNCHANGED WsOthers

\* The results of the query are exhausted; the loop goes to the next query.
EndResults ==
    /\ ws.phase = "results"
    /\ ws' = [ws EXCEPT !.phase = "collect", !.k = 0]
    /\ UNCHANGED WsOthers

\* agent_tools.py:1310-1345: choose the pool, shuffle, pick, save, return.
SelectAndReturn(perm, save_ok) ==
    /\ ws.phase = "collect" /\ ws.queried = NumVariants
    /\ LET recent_urls == LoadRecentUrls(ws.cache)
           fresh_pool == FreshPool(ws.all_results, Range(recent_urls))
           pool == ChoosePool(fresh_pool, ws.all_results, ws.max_results)
           shuffled == [j \in 1..Len(pool) |-> pool[perm[j]]]
           picked == TakeFirst(shuffled, ws.max_results)
           picked_urls == [j \in 1..Len(picked) |-> picked[j].url]
       IN /\ perm \in ShuffleOrders(Len(pool))
          /\ ws' = [ws EXCEPT
                 !.phase = "returned",
                 !.pool = IF Len(fresh_pool) >= ws.max_results THEN "fresh" ELSE "all",
                 !.ret = picked,
                 !.cache = IF save_ok
                           THEN [ok |-> TRUE,
                                 urls |-> LastN(recent_urls \o picked_urls, RecentLimit)]
                           ELSE @]
    /\ UNCHANGED WsOthers

NextSearch ==
    \/ \E kind \in SearchOutcomes : InvokeSearch(kind)
    \/ \E raw \in RawUrls : NextResult(raw)
    \/ EndResults
    \/ \E n \in 0..Cardinality(GoodIds), save_ok \in BOOLEAN :
           \E perm \in ShuffleOrders(n) : SelectAndReturn(perm, save_ok)

SpecSearch == InitSearch /\ [][NextSearch]_vars

\* The addresses collected by the variants that returned a list.
Collected == {u \in GoodIds : ws.firstSeen[u] > 0}

\* The addresses the cache held when the call began.
CachedAtStart == IF ws.cache0.ok THEN Range(ws.cache0.urls) ELSE {}

\* ------------------------------- the recent-URL cache under several calls
Callers == 1..NumCallers

\* Lengths of the cache file when the calls begin: empty, one below the
\* limit, at the limit.
StartLengths == {0, RecentLimit - 1, RecentLimit}

\* The entry a caller appends: its own number; the entries the file held
\* before are 0.
PickedUrls(p, n) == [i \in 1..n |-> p]

\* Variant of SavedUrls that keeps the oldest entries.
SavedUrls_KeepOldest(urls, limit) == IF Len(urls) <= limit THEN urls ELSE SubSeq(urls, 1, limit)

\* _save_recent_urls writes urls[-limit:] (agent_tools.py:1250-1255)
SavedUrls(urls, limit) == LastN(urls, limit)

NoCall == [phase |-> "idle", recent_urls |-> <<>>, picked |-> <<>>, saved |-> FALSE]

InitCacheWith(serial) ==
    /\ OrchIdle /\ WhIdle /\ RtIdle /\ GrIdle /\ CrIdle /\ WsIdle
    /\ CxIdle /\ FsIdle /\ SnIdle /\ BtIdle /\ RaIdle
    /\ \E n \in StartLengths :
        rc = [phase |-> "run", serial |-> serial,
              file |-> [i \in 1..n |-> 0],
              appended |-> [i \in 1..n |-> 0],
              call |-> [p \in Callers |-> NoCall]]

\* Calls may overlap, as calls of a tool from different threads do.
InitCache == InitCacheWith(FALSE)

\* Calls run one after the other.
InitCacheSeq == InitCacheWith(TRUE)

RcOthers == <<orchVars, wh, rt, gr, cr, ws, cx, fs, sn, bt, ra>>

\* recent_urls = _load_recent_urls() (agent_tools.py:1310)
CacheLoad(p) ==
    /\ rc.phase = "run"
    /\ rc.call[p].phase = "idle"
    /\ rc.serial => \A q \in Callers : rc.call[q].phase # "loaded"
    /\ rc' = [rc EXCEPT !.call[p].phase = "loaded",
                        !.call[p].recent_urls = LastN(rc.file, RecentLimit)]
    /\ UNCHANGED RcOthers

\* _save_recent_urls(recent_urls + picked_urls) (agent_tools.py:1343); a
\* failing write is swallowed (1256-1257).
CacheSave(p, n, save_ok) ==
    /\ rc.phase = "run"
    /\ rc.call[p].phase = "loaded"
    /\ LET picked_urls == PickedUrls(p, n) IN
       rc' = [rc EXCEPT
           !.call[p].phase = "done",
           !.call[p].picked = picked_urls,
           !.call[p].saved = save_ok,
           !.file = IF save_ok
                    THEN SavedUrls(rc.call[p].recent_urls \o picked_urls, RecentLimit)
                    ELSE @,
           !.appended = IF save_ok THEN @ \o picked_urls ELSE @]
    /\ UNCHANGED RcOthers

NextCache ==
    \/ \E p \in Callers : CacheLoad(p)
    \/ \E p \in Callers, n \in 0..MaxResults, save_ok \in BOOLEAN : CacheSave(p, n, save_ok)

SpecCache == InitCache /\ [][NextCache]_vars

SpecCacheSeq == InitCacheSeq /\ [][NextCache]_vars

CacheRunning == rc.phase = "run"

\* ----------------------------- WebSearcher._crawl_contents / _crawl_single
\* Shortest extracted text that counts as a crawled body (searcher.py:196).
MinContentLen == 100

ItemKeys == {1, 2}

\* An item as _collect_urls builds it: url, title, snippet and query all
\* belong to the search result k.
Item(k) == [url |-> k, title |-> k, snippet |-> k, query |-> k]

\* What the request of one url and the extraction end in: a timeout, an
\* HTTP error status, another exception, or an extracted text of some
\* length (0: nothing extracted).
FetchOutcomes ==
    [kind : {"timeout", "http_error", "exception"}, len : {0}]
        \cup [kind : {"ok"}, len : {0, MinContentLen - 1, MinContentLen, MinContentLen + 1}]

SnippetResult(item) ==
    [title |-> item.title, url |-> item.url, query |-> item.query,
     content |-> [from |-> "snippet", of |-> item.snippet],
     content_type |-> "snippet"]

\* Variant of CrawlSingle that takes any extracted text.
CrawlSingle_AnyLength(item, out) ==
    IF out.kind = "ok"
    THEN [title |-> item.title, url |-> item.url, query |-> item.query,
          content |-> [from |-> "page", of |-> item.url],
          content_type |-> "full_crawled"]
    ELSE SnippetResult(item)

\* WebSearcher._crawl_single (searcher.py:177-217)
CrawlSingle(item, out) ==
    IF out.kind = "ok" /\ out.len > 0 /\ out.len >= MinContentLen
    THEN [title |-> item.title, url |-> item.url, query |-> item.query,
          content |-> [from |-> "page", of |-> item.url],
          content_type |-> "full_crawled"]
    ELSE SnippetResult(item)

\* Variant of FutureKeys with one future per url.
FutureKeys_ByUrl(items) ==
    {i \in 1..Len(items) : \A j \in 1..(i - 1) : items[j].url # items[i].url}

\* The futures of the dictionary future_to_item: one per submitted item
\* (searcher.py:153-156).
FutureKeys(items) == 1..Len(items)

NoFuture == [title |-> 0, url |-> 0, query |-> 0,
             content |-> [from |-> "none", of |-> 0], content_type |-> "none"]

InitContents ==
    /\ OrchIdle /\ WhIdle /\ RtIdle /\ GrIdle /\ CrIdle /\ WsIdle
    /\ RcIdle /\ FsIdle /\ SnIdle /\ BtIdle /\ RaIdle
    /\ \E ks \in SeqsUpTo(ItemKeys, MaxItems), w \in 1..MaxWorkers :
        cx = [phase |-> "run", max_workers |-> w,
              items |-> [i \in 1..Len(ks) |-> Item(ks[i])],
              status |-> [i \in 1..Len(ks) |->
                             IF i \in FutureKeys([j \in 1..Len(ks) |-> Item(ks[j])])
                             THEN "queued" ELSE "none"],
              fetch |-> [i \in 1..Len(ks) |-> [kind |-> "none", len |-> 0]],
              future |-> [i \in 1..Len(ks) |-> NoFuture],
              completed |-> <<>>,
              results |-> <<>>]

CxOthers == <<orchVars, wh, rt, gr, cr, ws, rc, fs, sn, bt, ra>>

Running == {i \in 1..Len(cx.items) : cx.status[i] = "running"}

\* A worker thread of the pool takes the next submitted item.
WorkerStart(i) ==
    /\ cx.phase = "run"
    /\ i \in 1..Len(cx.items) /\ cx.status[i] = "queued"
    /\ \A j \in 1..(i - 1) : cx.status[j] # "queued"
    /\ Cardinality(Running) < cx.max_workers
    /\ cx' = [cx EXCEPT !.status[i] = "running"]
    /\ UNCHANGED CxOthers

\* The worker finishes _crawl_single for its item.
WorkerFinish(i, out) ==
    /\ cx.phase = "run"
    /\ i \in Running
    /\ cx' = [cx EXCEPT !.status[i] = "finished",
                        !.fetch[i] = out,
                        !.future[i] = CrawlSingle(cx.items[i], out),
                        !.completed = Append(@, i)]
    /\ UNCHANGED CxOthers

\* One pass of the as_completed loop (searcher.py:158-172).
CollectCompleted ==
    /\ cx.phase = "run"
    /\ cx.completed # <<>>
    /\ LET i == Head(cx.completed) IN
       cx' = [cx EXCEPT !.status[i] = "collected",
                        !.completed = Tail(@),
                        !.results = Append(@, cx.future[i])]
    /\ UNCHANGED CxOthers

\* searcher.py:174-175
ContentsReturn ==
    /\ cx.phase = "run"
    /\ \A i \in 1..Len(cx.items) : cx.status[i] \in {"collected", "none"}
    /\ cx' = [cx EXCEPT !.phase = "returned"]
    /\ UNCHANGED CxOthers

NextContents ==
    \/ \E i \in 1..MaxItems : WorkerStart(i)
    \/ \E i \in 1..MaxItems, out \in FetchOutcomes : WorkerFinish(i, out)
    \/ CollectCompleted
    \/ ContentsReturn

SpecContents == InitContents /\ [][NextContents]_vars

ContentsRunning == cx.phase \in {"run", "returned"}

\* Number of entries of the sequence q whose url is k.
CountUrl(q, k) == Cardinality({i \in 1..Len(q) : q[i].url = k})

\* ------------------------------------- web_fetch_and_store, the store step
\* A content body: its first 20000 characters (head) and what follows them
\* (rest, 0 when the body is not longer).
Bodies == [head : {1, 2}, rest : {0, 1}]

ExtractedItems == [u : {1, 2}, content : Bodies]

\* content[:20000] (agent_tools.py:1456)
ContentPrefix(content) == content.head

\* _hash_text (agent_tools.py:27-28): SHA-256, taken as collision-free.
HashText(text) == [sha256 |-> text]

\* Variant of StoreKey that keys on the url alone.
StoreKey_UrlOnly(u, content) == <<u, HashText(0)>>

\* key = f"{u}::{content_hash}" (agent_tools.py:1456-1457)
StoreKey(u, content) == <<u, HashText(ContentPrefix(content))>>

InitStore ==
    /\ OrchIdle /\ WhIdle /\ RtIdle /\ GrIdle /\ CrIdle /\ WsIdle
    /\ RcIdle /\ CxIdle /\ SnIdle /\ BtIdle /\ RaIdle
    /\ \E items \in SeqsUpTo(ExtractedItems, MaxExtracted), dedup \in BOOLEAN :
        fs = [phase |-> "loop", dedup |-> dedup,
              extracted_items |-> items, k |-> 0,
              seen_keys |-> {}, docs |-> <<>>, skipped |-> 0,
              added |-> <<>>,
              result |-> [stored |-> 0, skipped |-> 0]]

FsOthers == <<orchVars, wh, rt, gr, cr, ws, rc, cx, sn, bt, ra>>

\* One pass of the loop of agent_tools.py:1455-1481.
StoreItem ==
    /\ fs.phase = "loop" /\ fs.k < Len(fs.extracted_items)
    /\ LET it == fs.extracted_items[fs.k + 1]
           key == StoreKey(it.u, it.content)
       IN IF fs.dedup /\ key \in fs.seen_keys
          THEN fs' = [fs EXCEPT !.k = @ + 1, !.skipped = @ + 1]
          ELSE fs' = [fs EXCEPT
                   !.k = @ + 1,
                   !.seen_keys = @ \cup {key},
                   !.docs = Append(@, [source |-> it.u, page_content |-> it.content,
                                       content_hash |-> key[2]])]
    /\ UNCHANGED FsOthers

\* agent_tools.py:1483-1489; add_documents may raise.
StoreReturn(add_raises) ==
    /\ fs.phase = "loop" /\ fs.k = Len(fs.extracted_items)
    /\ IF fs.docs # <<>> /\ add_raises
       THEN fs' = [fs EXCEPT !.phase = "raised"]
       ELSE fs' = [fs EXCEPT !.phase = "returned",
                             !.added = fs.docs,
                             !.result = [stored |-> Len(fs.docs), skipped |-> fs.skipped]]
    /\ UNCHANGED FsOthers

NextStore ==
    \/ StoreItem
    \/ \E add_raises \in BOOLEAN : StoreReturn(add_raises)

SpecStore == InitStore /\ [][NextStore]_vars

\* The batch returned with dedup enabled.
StoredWithDedup == fs.phase = "returned" /\ fs.dedup

\* Some document added to the store holds the body of item i under its url.
BodyStored(i) ==
    \E d \in 1..Len(fs.added) :
        /\ fs.added[d].source = fs.extracted_items[i].u
        /\ fs.added[d].page_content = fs.extracted_items[i].content

\* ------------------------- snippet collection: store, load, report, mark
\* Default kind of the snippet tools and another kind a caller may pass.
SnippetKinds == {"voicephishing_snippet_v1", "other_kind"}

\* The report id write_report_from_snippets_and_store returns, a hash of the
\* report text and the time (agent_tools.py:1844-1845).
ReportIds == {"r1"}

NoReportId == "none"

\* Metadata store_snippets_only writes (agent_tools.py:1673-1684); title,
\* url, snippet_id and content_hash all derive from the url of the snippet.
NewSnippetMeta(url, kind) ==
    [kind |-> kind, url |-> url, title |-> url, snippet_id |-> HashText(url),
     processed |-> FALSE, used_in_report_id |-> "", processed_at |-> "unset"]

\* Variant of MarkMeta that does not record the report.
MarkMeta_NoReport(meta, kind, report_id) ==
    [meta EXCEPT !.kind = kind, !.processed = TRUE, !.processed_at = "set"]

\* The metadata mark_snippets_processed builds from an old one
\* (agent_tools.py:1885-1891).
MarkMeta(meta, kind, report_id) ==
    [meta EXCEPT !.kind = kind, !.processed = TRUE,
                 !.used_in_report_id = IF report_id = NoReportId THEN "" ELSE report_id,
                 !.processed_at = "set"]

\* Ids of the documents load_collected_snippets selects (agent_tools.py:
\* 1726-1736), in the order of the collection.
RECURSIVE MatchingIds(_, _, _, _)
MatchingIds(docs, i, kind, only_unprocessed) ==
    IF i > Len(docs) THEN <<>>
    ELSE (IF docs[i].kind = kind /\ (only_unprocessed => ~docs[i].processed)
          THEN <<i>> ELSE <<>>)
         \o MatchingIds(docs, i + 1, kind, only_unprocessed)

\* Sequences of distinct ids of documents of the collection.
IdLists(n) == {q \in SeqsUpTo(1..n, n) : \A a, b \in 1..Len(q) : q[a] = q[b] => a = b}

\* The orders col.get may return the requested documents in: the order of
\* doc_ids or the order of the collection.
GetOrders(doc_ids) ==
    LET n == Len(doc_ids) IN
    {f \in ShuffleOrders(n) :
        \/ \A i \in 1..n : f[i] = i
        \/ \A i, j \in 1..n : i < j => doc_ids[f[i]] < doc_ids[f[j]]}

InitSnippets ==
    /\ OrchIdle /\ WhIdle /\ RtIdle /\ GrIdle /\ CrIdle /\ WsIdle
    /\ RcIdle /\ CxIdle /\ FsIdle /\ BtIdle /\ RaIdle
    /\ sn = [phase |-> "run", docs |-> <<>>,
             loaded |-> <<>>, last_load |-> "none",
             flow |-> [stage |-> "none", ids |-> <<>>, report_id |-> NoReportId]]

SnOthers == <<orchVars, wh, rt, gr, cr, ws, rc, cx, fs, bt, ra>>

\* store_snippets_only for one snippet (agent_tools.py:1645-1692); a snippet
\* without url is skipped. The url of a stored snippet is new to the
\* collection.
StoreSnippetsOnly(has_url, kind) ==
    /\ sn.phase = "run" /\ Len(sn.docs) < MaxDocs
    /\ sn' = [sn EXCEPT
           !.docs = IF has_url THEN Append(@, NewSnippetMeta(Len(sn.docs) + 1, kind)) ELSE @,
           !.loaded = <<>>, !.last_load = "none"]
    /\ UNCHANGED SnOthers

\* load_collected_snippets (agent_tools.py:1698-1751)
LoadCollectedSnippets(limit, kind, only_unprocessed) ==
    /\ sn.phase = "run"
    /\ LET ids == TakeFirst(MatchingIds(sn.docs, 1, kind, only_unprocessed), limit) IN
       sn' = [sn EXCEPT
           !.loaded = ids,
           !.last_load = IF only_unprocessed THEN "unprocessed" ELSE "all",
           !.flow = IF sn.flow.stage \in {"marked", "marked_again"} THEN @
                    ELSE [stage |-> "loaded", ids |-> ids, report_id |-> NoReportId]]
    /\ UNCHANGED SnOthers

\* write_report_from_snippets_and_store on the loaded items (agent_tools.py:
\* 1756-1862); the call of the language model may raise.
WriteReportFromSnippets(raises, id) ==
    /\ sn.phase = "run"
    /\ sn.flow.stage = "loaded"
    /\ IF sn.flow.ids = <<>> \/ raises
       THEN sn' = [sn EXCEPT !.flow = [stage |-> "none", ids |-> <<>>, report_id |-> NoReportId],
                             !.loaded = <<>>, !.last_load = "none"]
       ELSE sn' = [sn EXCEPT
               !.loaded = <<>>, !.last_load = "none",
               !.flow = [@ EXCEPT !.stage = "written", !.report_id = id]]
    /\ UNCHANGED SnOthers

\* The collection after mark_snippets_processed (agent_tools.py:1877-1893):
\* col.get returns the old metadata in the order get_order, and col.update
\* pairs doc_ids[i] with new_metas[i].
MarkedDocs(docs, doc_ids, report_id, kind, get_order) ==
    LET old_metas == [i \in 1..Len(doc_ids) |-> docs[doc_ids[get_order[i]]]]
        new_metas == [i \in 1..Len(doc_ids) |-> MarkMeta(old_metas[i], kind, report_id)]
        pos(id) == CHOOSE i \in 1..Len(doc_ids) : doc_ids[i] = id
    IN [id \in 1..Len(docs) |->
           IF id \in Range(doc_ids) THEN new_metas[pos(id)] ELSE docs[id]]

\* mark_snippets_processed (agent_tools.py:1864-1894)
MarkSnippetsProcessed(doc_ids, report_id, kind, get_order) ==
    /\ sn.phase = "run"
    /\ doc_ids \in IdLists(Len(sn.docs))
    /\ get_order \in GetOrders(doc_ids)
    /\ sn' = [sn EXCEPT
           !.docs = MarkedDocs(sn.docs, doc_ids, report_id, kind, get_order),
           !.loaded = <<>>, !.last_load = "none",
           !.flow = IF /\ sn.flow.stage = "written"
                       /\ doc_ids = sn.flow.ids
                       /\ report_id = sn.flow.report_id
                    THEN [@ EXCEPT !.stage = "marked"]
                    ELSE IF sn.flow.stage = "marked" THEN [@ EXCEPT !.stage = "marked_again"]
                    ELSE @]
    /\ UNCHANGED SnOthers

NextSnippets ==
    \/ \E has_url \in BOOLEAN, kind \in SnippetKinds : StoreSnippetsOnly(has_url, kind)
    \/ \E limit \in 1..MaxDocs, kind \in SnippetKinds, only_unprocessed \in BOOLEAN :
           LoadCollectedSnippets(limit, kind, only_unprocessed)
    \/ \E raises \in BOOLEAN, id \in ReportIds : WriteReportFromSnippets(raises, id)
    \/ \E doc_ids \in IdLists(MaxDocs), report_id \in ReportIds \cup {NoReportId}, kind \in SnippetKinds :
           \E get_order \in GetOrders(doc_ids) :
               MarkSnippetsProcessed(doc_ids, report_id, kind, get_order)

SpecSnippets == InitSnippets /\ [][NextSnippets]_vars

SnippetsRunning == sn.phase = "run"

\* --------------------------------------- crawl_and_extract_batch_multi_page
\* The tool runs crawl_site_with_pagination (agent_tools.py:1116-1123), here
\* the crawl of SpecCrawl, and goes on from its result.
BtOthers == <<orchVars, wh, rt, gr, ws, rc, cx, fs, sn, ra>>

\* agent_tools.py:1125-1133: nothing found, the early return.
NoArticlesFound ==
    [pages_crawled |-> 0, crawled_count |-> 0, extracted_count |-> 0,
     articles |-> <<>>, note |-> "no_articles_found"]

\* agent_tools.py:1158-1164: the return after the extraction loop.
BatchResult(crawl_result, articles_with_content) ==
    [pages_crawled |-> crawl_result.pages_crawled,
     crawled_count |-> crawl_result.found_count,
     extracted_count |-> Len(articles_with_content),
     articles |-> articles_with_content, note |-> "none"]

\* agent_tools.py:1125-1136: the test on the result of the crawl.
BatchAfterCrawl ==
    /\ cr.phase = "returned" /\ bt.phase = "idle"
    /\ bt' = IF cr.result.found_count = 0
             THEN [phase |-> "returned", i |-> 1, articles_with_content |-> <<>>,
                   result |-> NoArticlesFound]
             ELSE [phase |-> "extract", i |-> 1, articles_with_content |-> <<>>,
                   result |-> NoArticlesFound]
    /\ UNCHANGED <<cr, BtOthers>>

\* One pass of the extraction loop (agent_tools.py:1140-1154);
\* extract_article_content answers extracted or not and never raises
\* (agent_tools.py:526-589).
ExtractArticle(extracted) ==
    /\ bt.phase = "extract" /\ bt.i <= Len(cr.result.articles)
    /\ bt' = [bt EXCEPT
           !.i = @ + 1,
           !.articles_with_content =
               IF extracted THEN Append(@, cr.result.articles[bt.i]) ELSE @]
    /\ UNCHANGED <<cr, BtOthers>>

\* agent_tools.py:1156-1164
BatchReturn ==
    /\ bt.phase = "extract" /\ bt.i > Len(cr.result.articles)
    /\ bt' = [bt EXCEPT !.phase = "returned",
                        !.result = BatchResult(cr.result, bt.articles_with_content)]
    /\ UNCHANGED <<cr, BtOthers>>

NextBatch ==
    \/ \E pg \in PageInputs : CrawlPage(pg)
    \/ CrawlReturn
    \/ BatchAfterCrawl
    \/ \E extracted \in BOOLEAN : ExtractArticle(extracted)
    \/ BatchReturn

SpecBatch == InitCrawl /\ [][NextBatch]_vars

BatchReturned == cr.phase = "returned" /\ bt.phase = "returned"

\* ------------------------------------------------ research agent pipeline
\* str(e) of a caught exception: a text, or the empty text of an exception
\* built without arguments.
ErrorMessages == {"failed", ""}

\* The None the error field starts with (research_agent.py:435).
NoError == "None"

\* The truth value Python gives the error field in "if state.get("error")"
\* (research_agent.py:97, 143, 278, 442): None and "" are false.
Truthy(error) == error # NoError /\ error # ""

\* What the work of a node may do: end, or raise with a message.
NodeOutcomes(max) ==
    [kind : {"ok"}, n : 0..max, msg : {"failed"}]
        \cup [kind : {"raise"}, n : {0}, msg : ErrorMessages]

RaOthers == <<orchVars, wh, rt, gr, cr, ws, rc, cx, fs, sn, bt>>

\* The initial state ResearchAgent.run builds (research_agent.py:426-436).
InitAgent ==
    /\ OrchIdle /\ WhIdle /\ RtIdle /\ GrIdle /\ CrIdle /\ WsIdle
    /\ RcIdle /\ CxIdle /\ FsIdle /\ SnIdle /\ BtIdle
    /\ ra = [phase |-> "analyze",
             analysis |-> "None", queries |-> 0,
             search_results |-> 0, techniques |-> 0, report |-> "None",
             error |-> NoError,
             recorded_by |-> "none", late_work |-> {},
             response |-> [status |-> "none", report |-> "None", error |-> NoError]]

\* History: node does its work; it is late when an earlier node recorded
\* an error.
LateWork(node) ==
    IF ra.recorded_by # "none" THEN ra.late_work \cup {node} ELSE ra.late_work

\* History: the first node that records an error.
RecordedBy(node) == IF ra.recorded_by = "none" THEN node ELSE ra.recorded_by

\* analyze_node (research_agent.py:61-90); out.n is the number of search
\* queries of the analysis.
AnalyzeNode(out) ==
    /\ ra.phase = "analyze"
    /\ ra' = IF out.kind = "ok"
             THEN [ra EXCEPT !.phase = "search", !.analysis = "set", !.queries = out.n]
             ELSE [ra EXCEPT !.phase = "search", !.error = out.msg,
                             !.recorded_by = RecordedBy("analyze")]
    /\ UNCHANGED RaOthers

\* search_node (research_agent.py:93-136); out.n is the number of results.
SearchNode(out) ==
    /\ ra.phase = "search"
    /\ ra' = IF Truthy(ra.error)
             THEN [ra EXCEPT !.phase = "generate_techniques"]
             ELSE IF ra.analysis = "None" \/ ra.queries = 0
             THEN [ra EXCEPT !.phase = "generate_techniques", !.search_results = 0]
             ELSE IF out.kind = "ok"
             THEN [ra EXCEPT !.phase = "generate_techniques", !.search_results = out.n,
                             !.late_work = LateWork("search")]
             ELSE [ra EXCEPT !.phase = "generate_techniques", !.search_results = 0,
                             !.error = out.msg,
                             !.recorded_by = RecordedBy("search"),
                             !.late_work = LateWork("search")]
    /\ UNCHANGED RaOthers

\* generate_techniques_node (research_agent.py:139-271); out.n is the
\* number of techniques the model answers with.
GenerateTechniquesNode(out) ==
    /\ ra.phase = "generate_techniques"
    /\ ra' = IF Truthy(ra.error)
             THEN [ra EXCEPT !.phase = "create_report"]
             ELSE IF ra.search_results = 0
             THEN [ra EXCEPT !.phase = "create_report", !.techniques = 0]
             ELSE IF out.kind = "ok"
             THEN [ra EXCEPT !.phase = "create_report", !.techniques = out.n,
                             !.late_work = LateWork("generate_techniques")]
             ELSE [ra EXCEPT !.phase = "create_report", !.techniques = 0,
                             !.error = out.msg,
                             !.recorded_by = RecordedBy("generate_techniques"),
                             !.late_work = LateWork("generate_techniques")]
    /\ UNCHANGED RaOthers

\* create_report_node (research_agent.py:274-379): without an error it
\* asks the model for a report whatever the techniques are.
CreateReportNode(out) ==
    /\ ra.phase = "create_report"
    /\ ra' = IF Truthy(ra.error)
             THEN [ra EXCEPT !.phase = "end"]
             ELSE IF out.kind = "ok"
             THEN [ra EXCEPT !.phase = "end", !.report = "set",
                             !.late_work = LateWork("create_report")]
             ELSE [ra EXCEPT !.phase = "end", !.error = out.msg,
                             !.recorded_by = RecordedBy("create_report"),
                             !.late_work = LateWork("create_report")]
    /\ UNCHANGED RaOthers

\* The response of ResearchAgent.run (research_agent.py:441-464);
\* build_raises stands for an exception while the success response is built.
RunReturn(build_raises) ==
    /\ ra.phase = "end"
    /\ ra' = [ra EXCEPT
           !.phase = "returned",
           !.response =
               IF Truthy(ra.error)
               THEN [status |-> "error", report |-> "None", error |-> ra.error]
               ELSE IF build_raises
               THEN [status |-> "error", report |-> "None", error |-> "failed"]
               ELSE [status |-> "success", report |-> ra.report, error |-> NoError]]
    /\ UNCHANGED RaOthers

\* The graph of build_research_graph (research_agent.py:384-401): analyze,
\* search, generate_techniques, create_report, END.
NextAgent ==
    \/ \E out \in NodeOutcomes(MaxSources) : AnalyzeNode(out)
    \/ \E out \in NodeOutcomes(MaxSources) : SearchNode(out)
    \/ \E out \in NodeOutcomes(MaxTechniques) : GenerateTechniquesNode(out)
    \/ \E out \in NodeOutcomes(0) : CreateReportNode(out)
    \/ \E build_raises \in BOOLEAN : RunReturn(build_raises)

SpecAgent == InitAgent /\ [][NextAgent]_vars

AgentReturned == ra.phase = "returned"

RECURSIVE MaxOf(_)
\* The largest element of a non-empty sequence of numbers.
MaxOf(q) ==
    IF Len(q) = 1 THEN q[1]
    ELSE LET m == MaxOf(Tail(q)) IN IF q[1] >= m THEN q[1] ELSE m

\* ------------------------------------------------- analysis query endpoints
\* get_analysis_result (routes.py:684-690); NoResult stands for the 404.
GetAnalysisResult(id) == results[id]

\* list_analysis_results (routes.py:673-681): the stored records (as a set;
\* the limit of 50 is above the number of events of the model).
ListAnalysisResults == {results[e] : e \in {x \in Events : results[x] # NoResult}}

\* get_analysis_by_case (routes.py:693-699)
GetAnalysisByCase(c) == {r \in ListAnalysisResults : r.case_id = c}

\* get_analysis_status (routes.py:724-737)
GetAnalysisStatus == [analyzed_cases |-> analyzed, analyzing_cases |-> analyzing]

\* ------------------------------------------------------------------ helpers
Skipped == {"skipped_analyzed", "skipped_analyzing"}

\* The executions of case c that hold a claim and have not returned.
InFlight(c) == {e \in Events : pc[e] = "webhook" /\ tcase[e] = c}

\* The background task of event e is started in this step.
Starts(e) == pc[e] = "pending" /\ pc'[e] # "pending"

\* The execution of event e returns in this step.
Completes(e) == pc[e] \in {"pending", "webhook"} /\ pc'[e] = "done"

\* What a stored record says apart from its identifiers.
RecordFields(r) == [status |-> r.status, has_error |-> r.has_error]

\* ------------------------------------------------------------------- claims

\* C1: when an event of a case is processed while an earlier execution of the
\* same case has not completed and the case was not reset since that
\* execution claimed it, the later event is skipped: it runs no agent, stores
\* no result, sends no webhook and does not add the case to the analyzed set.
C1_SecondEventSkipped ==
    [][\A e2 \in Events :
        (/\ Starts(e2)
         /\ \E e1 \in Events \ {e2} :
                /\ tcase[e1] = tcase[e2]
                /\ pc[e1] = "webhook"
                /\ fresh[e1] # "stale")
        => /\ pc'[e2] \in Skipped
           /\ agentRes'[e2] = "none"
           /\ results'[e2] = NoResult
           /\ calls'[e2] = 0
           /\ analyzed' = analyzed]_vars

\* C2: in every reachable state at most one analysis execution of a case is
\* between its claim and its release.
C2_AtMostOneInFlight ==
    \A c \in Cases : Cardinality(InFlight(c)) <= 1

\* C3: while a case is in the analyzed set, no step adds it to the analyzing
\* set and every event of the case that is processed is skipped.
C3_AnalyzedStaysSkipped ==
    [][\A c \in Cases :
        c \in analyzed =>
            /\ (c \in analyzing' => c \in analyzing)
            /\ \A e \in Events :
                   (tcase[e] = c /\ Starts(e)) => pc'[e] = "skipped_analyzed"]_vars

C3_Witness ==
    \E e \in Events :
        /\ pc[e] = "skipped_analyzed"
        /\ tcase[e] \in analyzed
        /\ tcase[e] \notin analyzing

\* C4: a reset leaves the case in neither set; the first event processed after
\* a reset of an analyzed case starts an execution; and an event processed
\* while that execution is running or after it succeeded (no reset since) is
\* skipped.
C4_ResetAllowsOneMore ==
    [][/\ \A c \in Cases :
            ResetCaseAnalysis(c) => (c \notin analyzing' /\ c \notin analyzed')
       /\ \A e \in Events :
            (Starts(e) /\ armed[tcase[e]]) => pc'[e] \in {"webhook", "done"}
       /\ \A e \in Events :
            (/\ Starts(e)
             /\ \E e1 \in Events \ {e} :
                    /\ tcase[e1] = tcase[e]
                    /\ fresh[e1] = "rerun"
                    /\ \/ pc[e1] = "webhook"
                       \/ pc[e1] = "done" /\ agentRes[e1] = "success")
            => pc'[e] \in Skipped]_vars

\* C5: an execution whose agent run returned status success leaves its case in
\* the analyzed set when it returns, whatever the webhook call gave.
C5_SuccessMarksAnalyzed ==
    [][\A e \in Events :
        (Completes(e) /\ agentRes'[e] = "success") => tcase[e] \in analyzed']_vars

C5_Witness ==
    \E e \in Events :
        /\ pc[e] = "done"
        /\ agentRes[e] = "success"
        /\ calls[e] = 1
        /\ sendRet[e] = "false"
        /\ tcase[e] \in analyzed

\* C6: an execution that fails (the agent raised or returned status error)
\* leaves its case in neither the analyzed nor the analyzing set when it
\* returns.
C6_FailureLeavesAbsent ==
    [][\A e \in Events :
        (Completes(e) /\ agentRes'[e] \in {"error", "raise"})
        => (tcase[e] \notin analyzed' /\ tcase[e] \notin analyzing')]_vars

\* C7: every execution that failed and has returned has stored a record and
\* has made one _send_webhook call with an error payload.
C7_FailureStoredAndSent ==
    \A e \in Events :
        (pc[e] = "done" /\ agentRes[e] \in {"error", "raise"})
        => /\ GetAnalysisResult(e) # NoResult
           /\ calls[e] = 1
           /\ payload[e] = "analysis_error"

\* C8: every execution that has returned made exactly one webhook delivery
\* attempt, and no execution ever makes more than one.
C8_ExactlyOneAttempt ==
    \A e \in Events :
        /\ calls[e] <= 1
        /\ posts[e] <= 1
        /\ pc[e] = "done" => calls[e] = 1

\* C9: no case is in the analyzing and in the analyzed set at once, in every
\* state a handler can run in (the add of routes.py:425 and the discard of
\* routes.py:452 are one uninterrupted run of the event loop).
C9_SetsDisjoint == GetAnalysisStatus.analyzing_cases \cap
                       GetAnalysisStatus.analyzed_cases = {}

C9_Witness ==
    \E e \in Events :
        /\ pc[e] = "done"
        /\ agentRes[e] = "success"
        /\ posts[e] = 1
        /\ tcase[e] \in analyzed
        /\ tcase[e] \notin analyzing

\* C10: a failed webhook delivery is recorded in what the query endpoints
\* return, so the records of two executions whose deliveries ended differently
\* differ in more than their identifiers; and the task whose delivery failed
\* has run to its end.
C10_DeliveryFailureVisible ==
    /\ \A e1, e2 \in Events :
        (/\ pc[e1] = "done" /\ pc[e2] = "done"
         /\ sendRet[e1] = "true" /\ sendRet[e2] = "false")
        => /\ RecordFields(GetAnalysisResult(e1)) # RecordFields(GetAnalysisResult(e2))
           /\ \A r1 \in GetAnalysisByCase(tcase[e1]), r2 \in GetAnalysisByCase(tcase[e2]) :
                (r1.analysis_id = e1 /\ r2.analysis_id = e2)
                    => RecordFields(r1) # RecordFields(r2)
    /\ \A e \in Events : sendRet[e] = "false" => pc[e] = "done"

\* C11: a call of _send_webhook returns true exactly when it made a POST that
\* was answered with status 200, 201 or 202; for every other status, a
\* timeout, another error or no URL it returns false, and it raises nothing.
C11_TrueIffAccepted ==
    \A i \in 1..Len(wh.log) :
        LET k == wh.log[i] IN
        /\ k.ret <=> (/\ k.posted
                      /\ k.resp.exc = "none"
                      /\ k.resp.status \in {200, 201, 202})
        /\ k.posted <=> k.url # "none"
        /\ ~k.raised

C11_Witness ==
    \E i, j \in 1..Len(wh.log) :
        /\ wh.log[i].ret
        /\ wh.log[j].posted /\ ~wh.log[j].ret /\ wh.log[j].resp.status = 204

\* C12 as stated: analysis_triggered is true exactly for the events whose
\* background task ran an analysis, and false for those whose task skipped.
C12_TriggeredIffExecuted ==
    \A e \in Events :
        pc[e] \in {"received", "webhook", "done"} \cup Skipped
            => (ack[e] <=> pc[e] \in {"webhook", "done"})

\* C12 as amended: analysis_triggered is true exactly for the events received
\* with auto_analyze set, whose background task was queued, whether that task
\* then runs an analysis or skips; it is false when auto_analyze is off.
C12_TriggeredIffQueued ==
    \A e \in Events :
        /\ pc[e] = "received" => ~ack[e]
        /\ pc[e] \in {"pending", "webhook", "done"} \cup Skipped => ack[e]
        /\ pc[e] = "none" => ~ack[e]

C12_Witness ==
    \E e1, e2 \in Events :
        /\ pc[e1] \in Skipped /\ ack[e1]
        /\ pc[e2] = "received" /\ ~ack[e2]

\* C13: compare_tool and vector_search answer HIT exactly when the largest
\* score the store returned is at least min_relevance (equal counts), MISS
\* otherwise and for an empty answer; the scores are those of the store and
\* the store is left as it was.
C13_HitIffMaxAtLeast ==
    rt.phase = "ready" =>
        /\ rt.store = rt.before
        /\ \A i \in 1..Len(rt.log) :
            LET k == rt.log[i] IN
            /\ k.route \in {"HIT", "MISS"}
            /\ k.route = "HIT" <=>
                    (Len(k.scores) > 0 /\ MaxOf(k.scores) >= k.min_relevance)
            /\ \A j \in 1..Len(k.scores) : k.scores[j] = rt.store[k.docs[j]]

C13_Witness ==
    /\ rt.phase = "ready"
    /\ \E i, j \in 1..Len(rt.log) :
        /\ rt.log[i].tool = "compare_tool" /\ rt.log[j].tool = "vector_search"
        /\ rt.log[i].route = "HIT" /\ rt.log[j].route = "MISS"
        /\ Len(rt.log[i].scores) > 0
        /\ MaxOf(rt.log[i].scores) = rt.log[i].min_relevance

\* C14 as stated: a run of the graph takes the web path (search, report,
\* store, outgoing) exactly when the store holds no document whose score
\* reaches the threshold; otherwise it is a HIT that returns the stored hits
\* with no search and no store write.
C14_WebIffNoHit ==
    gr.phase = "run" =>
        /\ gr.searches > 0 => ~StoreHasHit
        /\ gr.node = "END" =>
            IF StoreHasHit
            THEN /\ gr.trace = HitPath /\ gr.outgoing.route = "HIT"
                 /\ gr.searches = 0 /\ gr.writes = 0
            ELSE gr.trace = WebPath /\ gr.outgoing.route = "MISS"

\* C14 as amended: the web path is taken exactly when judgment_tool set
\* needs_web or the store holds no document whose score reaches the
\* threshold; otherwise the run is a HIT that returns the hits of the store
\* with no search and no store write.  The nodes run in the order of the path.
C14_WebIffNeedsWebOrNoHit ==
    gr.phase = "run" =>
        LET web == gr.judgment.needs_web \/ ~StoreHasHit IN
        /\ IsPrefix(gr.trace, WebPath) \/ IsPrefix(gr.trace, HitPath)
        /\ Len(gr.trace) >= 2 =>
            /\ gr.searches > 0 => web
            /\ gr.writes > 0 => web
            /\ gr.node = "END" =>
                IF web
                THEN /\ gr.trace = WebPath /\ gr.outgoing.route = "MISS"
                     /\ gr.searches = 1
                ELSE /\ gr.trace = HitPath /\ gr.outgoing.route = "HIT"
                     /\ gr.searches = 0 /\ gr.writes = 0
                     /\ gr.outgoing.top_docs = [i \in 1..Len(gr.store) |-> i]
                     /\ gr.hit_scores = gr.store

C14_Witness ==
    /\ gr.phase = "run"
    /\ gr.node = "END"
    /\ gr.judgment.needs_web
    /\ StoreHasHit
    /\ gr.trace = WebPath
    /\ gr.writes > 0

\* C15: with max_pages = P the crawl issues at most P listing-page requests,
\* returns pages_crawled <= P and returns at most max_articles articles.
C15_PagesAndArticlesCapped ==
    CrawlRunning =>
        /\ Len(cr.log) <= cr.max_pages
        /\ cr.pages_crawled <= cr.max_pages
        /\ cr.phase = "returned" =>
            /\ cr.result.pages_crawled <= cr.max_pages
            /\ Len(cr.result.articles) <= cr.max_articles
            /\ cr.result.found_count = Len(cr.result.articles)

C15_Witness ==
    /\ cr.phase = "returned"
    /\ Len(cr.log) = cr.max_pages
    /\ cr.max_pages = MaxPages
    /\ Len(cr.result.articles) = cr.max_articles
    /\ Len(ArticlesOfPages(cr.log, Len(cr.log))) > cr.max_articles

\* C16: pages are requested in increasing page order; no page is requested
\* after a page that reached the article cap, yielded no article or (with
\* next_button) offered no next link; with next_button page N+1 is requested
\* at the next link found on page N.
C16_OrderedAndStopsAtTerminal ==
    CrawlRunning =>
        \A i \in 1..Len(cr.log) :
            /\ cr.log[i].page = i
            /\ i < Len(cr.log) =>
                /\ Len(cr.log[i].before) + cr.log[i].found < cr.max_articles
                /\ cr.log[i].found > 0
                /\ cr.log[i].raised = "none"
                /\ cr.pagination_type = "next_button" =>
                    /\ cr.log[i].next.kind = "link"
                    /\ cr.log[i + 1].url = cr.log[i].next
            /\ cr.pagination_type = "next_button" /\ i = 1 => cr.log[i].url = SiteUrl
            /\ cr.pagination_type = "url_param" => cr.log[i].url = [kind |-> "param", n |-> i]
            /\ cr.pagination_type = "path" => cr.log[i].url = [kind |-> "path", n |-> i]

C16_Witness ==
    /\ cr.phase = "returned"
    /\ cr.pagination_type = "next_button"
    /\ Len(cr.log) = 2
    /\ cr.log[2].url = [kind |-> "link", n |-> 2]
    /\ cr.log[2].found = 0
    /\ cr.max_pages > 2

\* C17 as stated: when the handling of page N raises, no later page is
\* requested and the crawl returns exactly the articles of pages 1..N-1 with
\* pages_crawled = N-1.
C17_RaiseKeepsEarlierPages ==
    cr.phase = "returned" =>
        \A i \in 1..Len(cr.log) :
            cr.log[i].raised # "none" =>
                /\ i = Len(cr.log)
                /\ cr.result.articles = ArticlesOfPages(cr.log, i - 1)
                /\ cr.result.pages_crawled = i - 1

\* C17 as amended: when the request for page N or the extraction of its
\* articles raises, no later page is requested and the crawl returns exactly
\* the articles of pages 1..N-1 with pages_crawled = N-1; when the lookup of
\* the next link of page N raises, the articles of page N are returned as
\* well and pages_crawled = N.
C17_RaiseKeepsCollected ==
    cr.phase = "returned" =>
        \A i \in 1..Len(cr.log) :
            cr.log[i].raised # "none" =>
                /\ i = Len(cr.log)
                /\ cr.log[i].raised \in {"fetch", "items"} =>
                    /\ cr.result.articles = ArticlesOfPages(cr.log, i - 1)
                    /\ cr.result.pages_crawled = i - 1
                /\ cr.log[i].raised = "next" =>
                    /\ cr.result.articles = ArticlesOfPages(cr.log, i)
                    /\ cr.result.pages_crawled = i

C17_Witness ==
    /\ cr.phase = "returned"
    /\ Len(cr.log) = 2
    /\ cr.log[2].raised = "items"
    /\ cr.log[2].found > 0
    /\ Len(cr.result.articles) > 0
    /\ cr.max_pages > 2

\* C18: the search returns at most max_results candidates; their urls are
\* non-empty, pairwise distinct, not hub pages, and each candidate is the
\* first occurrence of its url over the variant queries.
C18_ReturnedCapDistinctNonHub ==
    ws.phase = "returned" =>
        /\ Len(ws.ret) <= ws.max_results
        /\ \A j \in 1..Len(ws.ret) :
            /\ ws.ret[j].url # ""
            /\ ~IsHubUrl(ws.ret[j].url)
            /\ ws.ret[j].url \in Collected
            /\ ws.ret[j].variant = ws.firstSeen[ws.ret[j].url]
            /\ \A k \in 1..Len(ws.ret) : ws.ret[j].url = ws.ret[k].url => j = k

C18_Witness ==
    /\ ws.phase = "returned"
    /\ Len(ws.ret) = ws.max_results
    /\ ws.max_results = MaxResults
    /\ Cardinality(Collected) > ws.max_results
    /\ \E j \in 1..Len(ws.ret) : ws.ret[j].variant = NumVariants

\* C19: when at least max_results collected candidates are absent from the
\* cache, every returned url was absent from the cache at the start of the
\* call; otherwise the selection is made from all collected candidates and
\* min(max_results, number collected) are returned.
C19_FreshPreferredElseAll ==
    ws.phase = "returned" =>
        IF Cardinality(Collected \ CachedAtStart) >= ws.max_results
        THEN \A j \in 1..Len(ws.ret) : ws.ret[j].url \notin CachedAtStart
        ELSE /\ Len(ws.ret) = Min2(ws.max_results, Cardinality(Collected))
             /\ \A j \in 1..Len(ws.ret) : ws.ret[j].url \in Collected

C19_Witness ==
    /\ ws.phase = "returned"
    /\ Collected \cap CachedAtStart # {}
    /\ Cardinality(Collected \ CachedAtStart) >= ws.max_results
    /\ Len(ws.ret) = MaxResults

C19_WitnessFallback ==
    /\ ws.phase = "returned"
    /\ Cardinality(Collected \ CachedAtStart) < ws.max_results
    /\ \E j \in 1..Len(ws.ret) : ws.ret[j].url \in CachedAtStart

\* C20: a variant whose search call fails is skipped and the remaining
\* variants are still queried; when every search call fails the operation
\* returns an empty list; it never raises.
C20_FailedVariantSkipped ==
    /\ ws.phase # "raised"
    /\ ws.phase = "returned" =>
        /\ ws.queried = NumVariants
        /\ ws.failed = NumVariants => ws.ret = <<>>

\* C21: when the calls that may overlap have all finished and saved, and the
\* entries stay below the limit, the cache file holds the urls picked by
\* every call.
C21_NoPickLost ==
    CacheRunning =>
        ((/\ \A p \in Callers : rc.call[p].phase = "done" /\ rc.call[p].saved
          /\ Len(rc.appended) < RecentLimit)
            => \A p \in Callers : Range(rc.call[p].picked) \subseteq Range(rc.file))

C23_FailureFallsBackToSnippet ==
    ContentsRunning =>
        \A i \in 1..Len(cx.items) :
            cx.status[i] \in {"finished", "collected"} =>
                LET r == cx.future[i] IN
                /\ r.url = cx.items[i].url
                /\ (cx.fetch[i].kind # "ok" \/ cx.fetch[i].len < MinContentLen) =>
                    /\ r.content_type = "snippet"
                    /\ r.content = [from |-> "snippet", of |-> cx.items[i].snippet]

C23_Witness ==
    /\ cx.phase = "returned"
    /\ \E i, j \in 1..Len(cx.items) :
        /\ cx.fetch[i].kind = "timeout"
        /\ cx.fetch[j] = [kind |-> "ok", len |-> MinContentLen - 1]
        /\ cx.future[j].content_type = "snippet"
        /\ cx.future[i].content_type = "snippet"
        /\ cx.items[i].snippet # cx.items[j].snippet

\* C28: _crawl_contents returns exactly one result per input item, whatever
\* the order in which the workers finish; each result carries the url, title
\* and query of one item.
C28_OneResultPerItem ==
    ContentsRunning =>
        /\ Len(cx.results) <= Len(cx.items)
        /\ \A j \in 1..Len(cx.results) :
            /\ cx.results[j].url = cx.results[j].title
            /\ cx.results[j].url = cx.results[j].query
        /\ \A k \in ItemKeys : CountUrl(cx.results, k) <= CountUrl(cx.items, k)
        /\ cx.phase = "returned" =>
            /\ Len(cx.results) = Len(cx.items)
            /\ \A k \in ItemKeys : CountUrl(cx.results, k) = CountUrl(cx.items, k)

C28_Witness ==
    /\ cx.phase = "returned"
    /\ Len(cx.items) = MaxItems
    /\ cx.items[1].url # cx.items[2].url
    /\ cx.results[1].url = cx.items[2].url
    /\ \E j \in 1..Len(cx.results) : cx.results[j].content_type = "snippet"

\* C24 as stated: with dedup, stored + skipped = N, one document is stored
\* per distinct key and every repeat is skipped; every different body of a
\* url is stored.
C24_DistinctBodiesStored ==
    StoredWithDedup =>
        LET N == Len(fs.extracted_items) IN
        /\ fs.result.stored + fs.result.skipped = N
        /\ fs.result.stored = Len(fs.added)
        /\ \A i \in 1..N : BodyStored(i)

\* C24 as amended: with dedup, stored + skipped = N and one document is
\* stored per distinct (url, hash of the first 20000 characters); bodies of
\* one url whose first 20000 characters differ are all stored, and a body
\* that repeats the first 20000 characters of an earlier body of its url is
\* skipped.
C24_OnePerUrlAndPrefix ==
    StoredWithDedup =>
        LET N == Len(fs.extracted_items)
            keys == {<<fs.extracted_items[i].u, fs.extracted_items[i].content.head>> : i \in 1..N}
        IN
        /\ fs.result.stored + fs.result.skipped = N
        /\ fs.result.stored = Len(fs.added)
        /\ fs.result.stored = Cardinality(keys)
        /\ \A i \in 1..N :
            \E d \in 1..Len(fs.added) :
                /\ fs.added[d].source = fs.extracted_items[i].u
                /\ fs.added[d].page_content.head = fs.extracted_items[i].content.head
        /\ \A i \in 1..N :
            (\A j \in 1..(i - 1) :
                ~(/\ fs.extracted_items[j].u = fs.extracted_items[i].u
                  /\ fs.extracted_items[j].content.head = fs.extracted_items[i].content.head))
                => BodyStored(i)

C24_Witness ==
    /\ StoredWithDedup
    /\ Len(fs.extracted_items) = 2
    /\ fs.extracted_items[1].u = fs.extracted_items[2].u
    /\ fs.extracted_items[1].content.head # fs.extracted_items[2].content.head
    /\ fs.result = [stored |-> 2, skipped |-> 0]

\* C25: mark_snippets_processed changes, for the documents of doc_ids, only
\* processed, used_in_report_id and processed_at; their other metadata
\* fields keep the value the same document had before, and the other
\* documents are unchanged.
C25_OnlyMarkFieldsChange ==
    [][\A doc_ids \in IdLists(MaxDocs), report_id \in ReportIds \cup {NoReportId}, kind \in SnippetKinds :
          \A get_order \in GetOrders(doc_ids) :
              MarkSnippetsProcessed(doc_ids, report_id, kind, get_order) =>
                  \A id \in 1..Len(sn.docs) :
                      IF id \in Range(doc_ids)
                      THEN /\ sn'.docs[id].kind = sn.docs[id].kind
                           /\ sn'.docs[id].url = sn.docs[id].url
                           /\ sn'.docs[id].title = sn.docs[id].title
                           /\ sn'.docs[id].snippet_id = sn.docs[id].snippet_id
                      ELSE sn'.docs[id] = sn.docs[id]]_vars

\* C26: after load, report and mark on the loaded ids with the returned
\* report id, every loaded document is processed and names that report, and
\* a later load of unprocessed documents returns none of them.
C26_MarkedAndNotReloaded ==
    (SnippetsRunning /\ sn.flow.stage \in {"marked", "marked_again"}) =>
        /\ \A i \in 1..Len(sn.flow.ids) : sn.docs[sn.flow.ids[i]].processed
        /\ sn.flow.stage = "marked" =>
            \A i \in 1..Len(sn.flow.ids) :
                sn.docs[sn.flow.ids[i]].used_in_report_id = sn.flow.report_id
        /\ sn.last_load = "unprocessed" =>
            Range(sn.loaded) \cap Range(sn.flow.ids) = {}

C26_Witness ==
    /\ SnippetsRunning
    /\ sn.flow.stage = "marked"
    /\ Len(sn.flow.ids) = MaxDocs
    /\ sn.last_load = "unprocessed"
    /\ sn.loaded = <<>>

\* C27: every case that enters the analyzing set eventually leaves it,
\* whether the analysis succeeds, returns an error status or raises, given
\* that every webhook call ends.
C27_EventuallyReleased ==
    \A c \in Cases : (c \in analyzing) ~> (c \notin analyzing)

C27_Witness ==
    \E e \in Events :
        /\ pc[e] = "done"
        /\ agentRes[e] = "raise"
        /\ posts[e] > 0
        /\ tcase[e] \notin analyzing

\* C29: crawl_and_extract_batch_multi_page reports as pages_crawled the
\* number of listing pages the crawl fetched and parsed, for every outcome,
\* and always extracted_count <= crawled_count <= max_articles.
C29_PagesAndCountsReported ==
    BatchReturned =>
        /\ bt.result.pages_crawled = cr.pages_crawled
        /\ bt.result.extracted_count <= bt.result.crawled_count
        /\ bt.result.crawled_count <= cr.max_articles

\* C30: once a node of the research pipeline records an error, no later
\* node does its search or generation work, and run returns a response with
\* status error and no report.
C30_ErrorStopsPipeline ==
    (ra.phase # "idle" /\ ra.recorded_by # "none") =>
        /\ ra.late_work = {}
        /\ AgentReturned =>
            /\ ra.response.status = "error"
            /\ ra.response.report = "None"

====
